---- MODULE Spec2Model ----
(***************************************************************************)
(* witi ("why is this installed"): the package index, the reverse          *)
(* dependency map and the installation-chain finder of src/unnamed/part_000.*)
(* Strings are sequences of runes (code points): "a" is <<97>>,            *)
(* "a>=1" is <<97, 62, 61, 49>>.                                           *)
(***************************************************************************)
EXTENDS Integers, Sequences, FiniteSets, TLC

VARIABLES
    packages,     \* cache.packages: name -> Package record
    targetPkg,    \* os.Args[1]
    pc,           \* position of main
    reverseDeps,  \* the map built by buildReverseDependencyMap
    visited,      \* dfsBackwards: the names whose visited flag is true
    stack,        \* dfsBackwards: the frames of the calls still in their loop
    chains,       \* *chains, then the value findInstallationChains returns
    run,          \* 1 in the first call of findInstallationChains, 2 in the second
    firstChains,  \* what the first call returned
    entryIdx,     \* loadAllPackages: the directory entries handled so far
    report,       \* what displayPackageInfo has printed
    depArg,       \* cleanDependencyName: its argument dep
    depResult     \* cleanDependencyName: the depName it returns

vars == <<packages, targetPkg, pc, reverseDeps, visited, stack, chains, run, firstChains,
          entryIdx, report, depArg, depResult>>

(***************************************************************************)
(* Bounds of the model.                                                    *)
(***************************************************************************)
MaxTotalDeps == 2   \* dependency specifiers in the whole index
MaxEntries == 2     \* entries of the local database directory
MaxLines == 3       \* lines of one desc file
MaxChains == 7      \* specifiers of one package, hence chains of one target
MaxSpecLen == 3     \* runes of a specifier given to cleanDependencyName alone

Explicit == "Explicitly installed"
Dependency == "Installed as a dependency"

\* the installed packages "a", "b", "c"
Names == {<<97>>, <<98>>, <<99>>}
\* the package asked for: "c" (the index treats all names alike, so any
\* installed name behaves as "c" does), or "z", which is not installed
Targets == {<<99>>, <<122>>}
\* a specifier is a name, a name with the constraint ">=1", or the line "="
Specs == Names \cup {n \o <<62, 61, 49>> : n \in Names} \cup {<<61>>}

SeqsUpTo(S, n) == UNION {[1..k -> S] : k \in 0..n}

\* the specifiers of package n in a list of <<package, specifier>> pairs
RECURSIVE DepsOf(_, _)
DepsOf(e, n) ==
    IF e = <<>> THEN <<>>
    ELSE (IF Head(e)[1] = n THEN <<Head(e)[2]>> ELSE <<>>) \o DepsOf(Tail(e), n)

\* the orders in which a range over a map with key set S can yield its keys
Orders(S) ==
    {o \in [1..Cardinality(S) -> S] : \A i, j \in DOMAIN o : o[i] = o[j] => i = j}

(***************************************************************************)
(* cleanDependencyName                                                     *)
(***************************************************************************)
IsSeparator(r) == r \in {32, 60, 62, 61}

RECURSIVE FieldsFrom(_, _, _, _)
FieldsFrom(s, i, cur, acc) ==
    IF i > Len(s)
    THEN IF cur = <<>> THEN acc ELSE Append(acc, cur)
    ELSE IF IsSeparator(s[i])
         THEN FieldsFrom(s, i + 1, <<>>, IF cur = <<>> THEN acc ELSE Append(acc, cur))
         ELSE FieldsFrom(s, i + 1, Append(cur, s[i]), acc)

\* strings.FieldsFunc(dep, separator)
FieldsFunc(s) == FieldsFrom(s, 1, <<>>, <<>>)

\* FieldsFunc(dep)[0] indexes an empty slice: the runtime panics
cleanPanics(dep) == FieldsFunc(dep) = <<>>

cleanDependencyName(dep) == FieldsFunc(dep)[1]

(***************************************************************************)
(* findRequiredBy, getPackageInfo                                          *)
(***************************************************************************)
\* the inner loop of findRequiredBy over one package's dependencies:
\* "match" at the first specifier that names pkgName (break), "panic" when a
\* specifier before it has no field, "none" otherwise
RECURSIVE ScanDeps(_, _, _)
ScanDeps(deps, j, pkgName) ==
    IF j > Len(deps) THEN "none"
    ELSE IF cleanPanics(deps[j]) THEN "panic"
    ELSE IF cleanDependencyName(deps[j]) = pkgName THEN "match"
    ELSE ScanDeps(deps, j + 1, pkgName)

findRequiredByPanics(pkgName, pk) ==
    \E k \in DOMAIN pk : ScanDeps(pk[k].Dependencies, 1, pkgName) = "panic"

RECURSIVE RequiredByFrom(_, _, _, _, _)
RequiredByFrom(pkgName, pk, ord, i, requiredBy) ==
    IF i > Len(ord) THEN requiredBy
    ELSE RequiredByFrom(pkgName, pk, ord, i + 1,
            IF ScanDeps(pk[ord[i]].Dependencies, 1, pkgName) = "match"
            THEN Append(requiredBy, pk[ord[i]].Name)
            ELSE requiredBy)

\* findRequiredBy when range cache.packages yields the keys in the order ord
findRequiredBy(pkgName, pk, ord) == RequiredByFrom(pkgName, pk, ord, 1, <<>>)

(***************************************************************************)
(* buildReverseDependencyMap                                               *)
(***************************************************************************)
\* m[k] of a Go map of slices: nil when the key is absent
Lookup(m, k) == IF k \in DOMAIN m THEN m[k] ELSE <<>>

\* mutant: reverseDeps[depName] = []string{pkg.Name}
AppendTo_Overwrite(m, depName, name) == (depName :> <<name>>) @@ m

\* reverseDeps[depName] = append(reverseDeps[depName], pkg.Name)
AppendTo(m, depName, name) == (depName :> Append(Lookup(m, depName), name)) @@ m

\* mutant: the map is keyed by the dependent: reverseDeps[pkg.Name] gets depName
RECURSIVE AddDependencies_Forward(_, _, _, _)
AddDependencies_Forward(m, name, deps, j) ==
    IF j > Len(deps) THEN m
    ELSE AddDependencies_Forward(AppendTo(m, name, cleanDependencyName(deps[j])),
            name, deps, j + 1)

RECURSIVE AddDependencies(_, _, _, _)
AddDependencies(m, name, deps, j) ==
    IF j > Len(deps) THEN m
    ELSE AddDependencies(AppendTo(m, cleanDependencyName(deps[j]), name), name, deps, j + 1)

RECURSIVE BuildFrom(_, _, _, _)
BuildFrom(pk, ord, i, m) ==
    IF i > Len(ord) THEN m
    ELSE BuildFrom(pk, ord, i + 1,
            AddDependencies(m, pk[ord[i]].Name, pk[ord[i]].Dependencies, 1))

buildPanics(pk) ==
    \E k \in DOMAIN pk : \E j \in DOMAIN pk[k].Dependencies :
        cleanPanics(pk[k].Dependencies[j])

\* buildReverseDependencyMap when range cache.packages yields the keys in the order ord
buildReverseDependencyMap(pk, ord) == BuildFrom(pk, ord, 1, <<>>)

(***************************************************************************)
(* dfsBackwards, reverseChain                                              *)
(***************************************************************************)
IsExplicit(pk, name) == name \in DOMAIN pk /\ pk[name].InstallReason = Explicit

\* mutant: no return after a chain is recorded
dfsBackwards_NoReturn(currentPkg, path, st, pk) ==
    IF currentPkg \in st.visited
    THEN st
    ELSE [st EXCEPT !.chains = IF IsExplicit(pk, currentPkg) THEN Append(@, path) ELSE @,
                    !.visited = @ \cup {currentPkg},
                    !.stack = Append(@, [pkg |-> currentPkg, path |-> path, idx |-> 1])]

\* mutant: the test of visited[currentPkg] is missing
dfsBackwards_NoVisitedCheck(currentPkg, path, st, pk) ==
    IF IsExplicit(pk, currentPkg)
    THEN [st EXCEPT !.chains = Append(@, path)]
    ELSE [st EXCEPT !.visited = @ \cup {currentPkg},
                    !.stack = Append(@, [pkg |-> currentPkg, path |-> path, idx |-> 1])]

\* mutant: visited[currentPkg] = true is missing
dfsBackwards_NoMark(currentPkg, path, st, pk) ==
    IF currentPkg \in st.visited
    THEN st
    ELSE IF IsExplicit(pk, currentPkg)
         THEN [st EXCEPT !.chains = Append(@, path)]
         ELSE [st EXCEPT !.stack = Append(@, [pkg |-> currentPkg, path |-> path, idx |-> 1])]

\* dfsBackwards from its entry to its loop: the state [visited, stack, chains]
\* after the call dfsBackwards(currentPkg, path, ...) has returned at once (the
\* package is on the current path, or is explicit and the path is recorded) or
\* has marked the package and reached its loop over reverseDeps[currentPkg]
dfsBackwards(currentPkg, path, st, pk) ==
    IF currentPkg \in st.visited
    THEN st
    ELSE IF IsExplicit(pk, currentPkg)
         THEN [st EXCEPT !.chains = Append(@, path)]
         ELSE [st EXCEPT !.visited = @ \cup {currentPkg},
                         !.stack = Append(@, [pkg |-> currentPkg, path |-> path, idx |-> 1])]

\* mutant: the append is missing
NewPath_NoAppend(path, dependentPkg) == path

\* newPath := append(copy of path, dependentPkg)
NewPath(path, dependentPkg) == Append(path, dependentPkg)

\* mutant: the chain is left as the traversal built it
reverseChain_Identity(chain) == chain

reverseChain(chain) == [i \in 1..Len(chain) |-> chain[Len(chain) + 1 - i]]

\* the recursion depth the model follows; the packages on the current path
\* are distinct, so the code stays below it (C4_Terminates checks that)
StackCap == Cardinality(Names) + 1

AfterCall(st) == IF st.stack = <<>> THEN "reverse" ELSE "dfs"

(***************************************************************************)
(* The program: main after loadAllPackages                                 *)
(***************************************************************************)
\* nothing printed yet
NoReport ==
    [explicit |-> FALSE, shown |-> <<>>, hasNote |-> FALSE, more |-> 0,
     noChain |-> FALSE, deps |-> <<>>, requiredBy |-> <<>>]

\* mutant: the list is stored in the wrong field of the record
SetRequiredBy_WrongField(pk, name, requiredBy) ==
    [pk EXCEPT ![name].Dependencies = requiredBy]

\* getPackageInfo: pkg.RequiredBy = findRequiredBy(pkgName, cache), pkg being
\* the record of the index itself
SetRequiredBy(pk, name, requiredBy) == [pk EXCEPT ![name].RequiredBy = requiredBy]

NewPackage(name, reason, deps) ==
    [Name |-> name, Version |-> <<49>>, InstallReason |-> reason,
     Dependencies |-> deps, RequiredBy |-> <<>>]

\* the indexes loadAllPackages can build of the packages Names with at most
\* MaxTotalDeps specifiers in all
Indexes ==
    {[n \in Names |-> NewPackage(n, r[n], DepsOf(e, n))] :
        r \in [Names -> {Explicit, Dependency}],
        e \in SeqsUpTo(Names \X Specs, MaxTotalDeps)}

Init ==
    /\ packages \in Indexes
    /\ targetPkg \in Targets
    /\ pc = "main"
    /\ reverseDeps = <<>>
    /\ visited = {}
    /\ stack = <<>>
    /\ chains = <<>>
    /\ run = 1
    /\ firstChains = <<>>
    /\ entryIdx = 0
    /\ report = NoReport
    /\ depArg = <<>>
    /\ depResult = <<>>

\* main: getPackageInfo(pkgName, cache)
GetPackageInfo ==
    /\ pc = "main"
    /\ \/ /\ targetPkg \notin DOMAIN packages
          /\ pc' = "exit"
          /\ UNCHANGED packages
       \/ /\ targetPkg \in DOMAIN packages
          /\ findRequiredByPanics(targetPkg, packages)
          /\ pc' = "panic"
          /\ UNCHANGED packages
       \/ /\ targetPkg \in DOMAIN packages
          /\ ~findRequiredByPanics(targetPkg, packages)
          /\ \E ord \in Orders(DOMAIN packages) :
                packages' = SetRequiredBy(packages, targetPkg,
                                findRequiredBy(targetPkg, packages, ord))
          /\ pc' = "find"
    /\ UNCHANGED <<targetPkg, reverseDeps, visited, stack, chains, run, firstChains, entryIdx, report, depArg, depResult>>

\* findInstallationChains up to the return of the first step of dfsBackwards
FindInstallationChains ==
    /\ pc = "find"
    /\ \/ /\ buildPanics(packages)
          /\ pc' = "panic"
          /\ UNCHANGED <<reverseDeps, visited, stack, chains>>
       \/ /\ ~buildPanics(packages)
          /\ \E ord \in Orders(DOMAIN packages) :
                reverseDeps' = buildReverseDependencyMap(packages, ord)
          /\ LET st == dfsBackwards(targetPkg, <<targetPkg>>,
                          [visited |-> {}, stack |-> <<>>, chains |-> <<>>], packages)
             IN /\ visited' = st.visited
                /\ stack' = st.stack
                /\ chains' = st.chains
                /\ pc' = AfterCall(st)
    /\ UNCHANGED <<packages, targetPkg, run, firstChains, entryIdx, report, depArg, depResult>>

\* one iteration of the loop of the innermost dfsBackwards: the recursive call
DfsExplore ==
    /\ pc = "dfs"
    /\ Len(stack) < StackCap
    /\ LET top == stack[Len(stack)]
           dependents == Lookup(reverseDeps, top.pkg)
       IN /\ top.idx <= Len(dependents)
          /\ LET dependentPkg == dependents[top.idx]
                 st == dfsBackwards(dependentPkg, NewPath(top.path, dependentPkg),
                          [visited |-> visited,
                           stack |-> [stack EXCEPT ![Len(stack)].idx = @ + 1],
                           chains |-> chains], packages)
             IN /\ visited' = st.visited
                /\ stack' = st.stack
                /\ chains' = st.chains
    /\ UNCHANGED <<packages, targetPkg, pc, reverseDeps, run, firstChains, entryIdx, report, depArg, depResult>>

\* the loop of the innermost dfsBackwards is over: the deferred
\* visited[currentPkg] = false, and the return
DfsReturn ==
    /\ pc = "dfs"
    /\ LET top == stack[Len(stack)]
       IN /\ top.idx > Len(Lookup(reverseDeps, top.pkg))
          /\ visited' = visited \ {top.pkg}
          /\ stack' = SubSeq(stack, 1, Len(stack) - 1)
          /\ pc' = IF Len(stack) = 1 THEN "reverse" ELSE "dfs"
    /\ UNCHANGED <<packages, targetPkg, reverseDeps, chains, run, firstChains, entryIdx, report, depArg, depResult>>

\* findInstallationChains: reverse each chain, return chains
ReverseChains ==
    /\ pc = "reverse"
    /\ chains' = [i \in 1..Len(chains) |-> reverseChain(chains[i])]
    /\ pc' = "done"
    /\ UNCHANGED <<packages, targetPkg, reverseDeps, visited, stack, run, firstChains, entryIdx, report, depArg, depResult>>

\* findInstallationChains(targetPkg, cache) is called a second time on the same index
Rerun ==
    /\ pc = "done"
    /\ run = 1
    /\ firstChains' = chains
    /\ run' = 2
    /\ pc' = "find"
    /\ UNCHANGED <<packages, targetPkg, reverseDeps, visited, stack, chains, entryIdx,
                   report, depArg, depResult>>

DisplayCap == 6      \* displayCount is at most 6
NoteThreshold == 5   \* the note is printed when len(chains) > 5

\* displayPackageInfo(pkg, chains): what it prints of the chains, the
\* dependencies and the required-by list
displayPackageInfo(pkg, ch) ==
    LET isExplicit == pkg.InstallReason = Explicit
        displayCount == IF Len(ch) > DisplayCap THEN DisplayCap ELSE Len(ch)
        listed == ~isExplicit /\ Len(ch) > 0
    IN [explicit |-> isExplicit,
        shown |-> IF listed THEN SubSeq(ch, 1, displayCount) ELSE <<>>,
        hasNote |-> listed /\ Len(ch) > NoteThreshold,
        more |-> IF listed /\ Len(ch) > NoteThreshold THEN Len(ch) - NoteThreshold ELSE 0,
        noChain |-> ~isExplicit /\ Len(ch) = 0,
        deps |-> pkg.Dependencies,
        requiredBy |-> pkg.RequiredBy]

\* main: displayPackageInfo(pkg, chains)
Display ==
    /\ pc = "done"
    /\ report' = displayPackageInfo(packages[targetPkg], chains)
    /\ pc' = "displayed"
    /\ UNCHANGED <<packages, targetPkg, reverseDeps, visited, stack, chains, run,
                   firstChains, entryIdx, depArg, depResult>>

Next ==
    \/ GetPackageInfo
    \/ FindInstallationChains
    \/ DfsExplore
    \/ DfsReturn
    \/ ReverseChains
    \/ Rerun
    \/ Display

Spec == Init /\ [][Next]_vars

\* the indexes in which "a" is explicit and lists up to MaxChains specifiers,
\* each "c" or "=", "b" is explicit and lists nothing, and "c" is either:
\* every specifier "c" of "a" gives the target "c" one more chain [a, c]
ManyChainIndexes ==
    {[n \in Names |->
        IF n = <<97>> THEN NewPackage(n, Explicit, d)
        ELSE IF n = <<98>> THEN NewPackage(n, Explicit, <<>>)
        ELSE NewPackage(n, r, <<>>)] :
        d \in SeqsUpTo({<<99>>, <<61>>}, MaxChains), r \in {Explicit, Dependency}}

InitDisplay ==
    /\ packages \in ManyChainIndexes
    /\ targetPkg \in Targets
    /\ pc = "main"
    /\ reverseDeps = <<>>
    /\ visited = {}
    /\ stack = <<>>
    /\ chains = <<>>
    /\ run = 1
    /\ firstChains = <<>>
    /\ entryIdx = 0
    /\ report = NoReport
    /\ depArg = <<>>
    /\ depResult = <<>>

\* main on an index with many chains to one target
SpecDisplay == InitDisplay /\ [][Next]_vars

FairSpec == Spec /\ WF_vars(Next)

(***************************************************************************)
(* parseDescFile, loadAllPackages                                          *)
(***************************************************************************)
\* unicode.IsSpace
WhiteSpace == {9, 10, 11, 12, 13, 32, 133, 160}

\* strings.TrimLeft / TrimRight over the runes of cutset
RECURSIVE TrimLeft(_, _)
TrimLeft(s, cutset) ==
    IF s # <<>> /\ Head(s) \in cutset THEN TrimLeft(Tail(s), cutset) ELSE s

RECURSIVE TrimRight(_, _)
TrimRight(s, cutset) ==
    IF s # <<>> /\ s[Len(s)] \in cutset
    THEN TrimRight(SubSeq(s, 1, Len(s) - 1), cutset)
    ELSE s

\* strings.TrimSpace(scanner.Text())
TrimSpace(s) == TrimRight(TrimLeft(s, WhiteSpace), WhiteSpace)

\* strings.HasPrefix(line, "%") && strings.HasSuffix(line, "%")
IsSectionHeader(line) == line # <<>> /\ line[1] = 37 /\ line[Len(line)] = 37

\* strings.Trim(line, "%")
SectionOf(line) == TrimRight(TrimLeft(line, {37}), {37})

SectionNAME == <<78, 65, 77, 69>>
SectionVERSION == <<86, 69, 82, 83, 73, 79, 78>>
SectionREASON == <<82, 69, 65, 83, 79, 78>>
SectionDEPENDS == <<68, 69, 80, 69, 78, 68, 83>>

\* the switch on currentSection for a line that is neither a header nor empty
SetField(pkg, section, line) ==
    IF section = SectionNAME THEN [pkg EXCEPT !.Name = line]
    ELSE IF section = SectionVERSION THEN [pkg EXCEPT !.Version = line]
    ELSE IF section = SectionREASON
         THEN IF line = <<49>> THEN [pkg EXCEPT !.InstallReason = Dependency] ELSE pkg
    ELSE IF section = SectionDEPENDS THEN [pkg EXCEPT !.Dependencies = Append(@, line)]
    ELSE pkg

\* the scan loop of parseDescFile from line i on
RECURSIVE ParseFrom(_, _, _, _)
ParseFrom(lines, i, pkg, currentSection) ==
    IF i > Len(lines) THEN pkg
    ELSE LET line == TrimSpace(lines[i])
         IN IF IsSectionHeader(line)
            THEN ParseFrom(lines, i + 1, pkg, SectionOf(line))
            ELSE IF line = <<>>
                 THEN ParseFrom(lines, i + 1, pkg, currentSection)
                 ELSE ParseFrom(lines, i + 1, SetField(pkg, currentSection, line),
                                currentSection)

\* the package parseDescFile returns for a desc file it could open
parseDescFile(lines) ==
    ParseFrom(lines, 1,
        [Name |-> <<>>, Version |-> <<>>, InstallReason |-> Explicit,
         Dependencies |-> <<>>, RequiredBy |-> <<>>],
        <<>>)

\* cache.packages[pkg.Name] = pkg
StorePackage(cache, pkg) == (pkg.Name :> pkg) @@ cache

\* the lines of the desc files: "%NAME%", "%VERSION%", "%REASON%", "%DEPENDS%",
\* "a", " b>=1 ", "1", "%" and the empty line
DescLines ==
    {<<37>> \o SectionNAME \o <<37>>, <<37>> \o SectionVERSION \o <<37>>,
     <<37>> \o SectionREASON \o <<37>>, <<37>> \o SectionDEPENDS \o <<37>>,
     <<97>>, <<32, 98, 62, 61, 49, 32>>, <<49>>, <<37>>, <<>>}

DescFiles == SeqsUpTo(DescLines, MaxLines)

InitLoad ==
    /\ packages = <<>>
    /\ targetPkg = <<>>
    /\ pc = "readdir"
    /\ reverseDeps = <<>>
    /\ visited = {}
    /\ stack = <<>>
    /\ chains = <<>>
    /\ run = 1
    /\ firstChains = <<>>
    /\ entryIdx = 0
    /\ report = NoReport
    /\ depArg = <<>>
    /\ depResult = <<>>

\* loadAllPackages: os.ReadDir(pacmanLocalDBPath)
ReadDir ==
    /\ pc = "readdir"
    /\ \/ pc' = "exit"     \* err != nil: main prints the error and exits
       \/ pc' = "load"
    /\ UNCHANGED <<packages, targetPkg, reverseDeps, visited, stack, chains, run,
                   firstChains, entryIdx, report, depArg, depResult>>

\* loadAllPackages: one iteration of the loop over the entries
LoadEntry ==
    /\ pc = "load"
    /\ entryIdx < MaxEntries
    /\ entryIdx' = entryIdx + 1
    /\ \/ UNCHANGED packages    \* !entry.IsDir()
       \/ UNCHANGED packages    \* os.Open(descFile) fails
       \/ \E lines \in DescFiles :
            \/ UNCHANGED packages    \* scanner.Err() != nil
            \/ packages' = StorePackage(packages, parseDescFile(lines))
    /\ UNCHANGED <<targetPkg, pc, reverseDeps, visited, stack, chains, run, firstChains,
                   report, depArg, depResult>>

\* loadAllPackages: the entries are exhausted, return cache, nil
LoadReturn ==
    /\ pc = "load"
    /\ pc' = "loaded"
    /\ UNCHANGED <<packages, targetPkg, reverseDeps, visited, stack, chains, run,
                   firstChains, entryIdx, report, depArg, depResult>>

NextLoad ==
    \/ ReadDir
    \/ LoadEntry
    \/ LoadReturn

SpecLoad == InitLoad /\ [][NextLoad]_vars

(***************************************************************************)
(* cleanDependencyName on the lines parseDescFile can put in Dependencies  *)
(***************************************************************************)
\* "libfoo>=1.0", "libfoo<2.0", "libfoo=1.5", "libfoo"
LibfooSpecs ==
    {<<108, 105, 98, 102, 111, 111>> \o suffix :
        suffix \in {<<62, 61, 49, 46, 48>>, <<60, 50, 46, 48>>, <<61, 49, 46, 53>>, <<>>}}

\* the lines parseDescFile appends to Dependencies: trimmed and not empty;
\* here of the runes "a", "1", "<", ">", "=", space and tab, and the four above
DependencyLines ==
    {l \in SeqsUpTo({97, 49, 60, 62, 61, 32, 9}, MaxSpecLen) :
        l # <<>> /\ TrimSpace(l) = l} \cup LibfooSpecs

InitClean ==
    /\ packages = <<>>
    /\ targetPkg = <<>>
    /\ pc = "clean"
    /\ reverseDeps = <<>>
    /\ visited = {}
    /\ stack = <<>>
    /\ chains = <<>>
    /\ run = 1
    /\ firstChains = <<>>
    /\ entryIdx = 0
    /\ report = NoReport
    /\ depArg \in DependencyLines
    /\ depResult = <<>>

\* depName := cleanDependencyName(dep)
CleanDependencyName ==
    /\ pc = "clean"
    /\ \/ /\ cleanPanics(depArg)
          /\ pc' = "panic"
          /\ UNCHANGED depResult
       \/ /\ ~cleanPanics(depArg)
          /\ depResult' = cleanDependencyName(depArg)
          /\ pc' = "cleaned"
    /\ UNCHANGED <<packages, targetPkg, reverseDeps, visited, stack, chains, run,
                   firstChains, entryIdx, report, depArg>>

NextClean == CleanDependencyName

SpecClean == InitClean /\ [][NextClean]_vars

(***************************************************************************)
(* Properties                                                              *)
(***************************************************************************)
\* findInstallationChains has returned; chains is what it returned
Returned == pc = "done"

\* package p of the index has a specifier that name-normalizes to d
HasDep(p, d) ==
    \E j \in DOMAIN packages[p].Dependencies :
        /\ ~cleanPanics(packages[p].Dependencies[j])
        /\ cleanDependencyName(packages[p].Dependencies[j]) = d

Range(s) == {s[i] : i \in DOMAIN s}

NoRepeat(s) == \A i, j \in DOMAIN s : s[i] = s[j] => i = j

C2_RootExplicitLastTarget ==
    (Returned /\ targetPkg \in DOMAIN packages /\ ~IsExplicit(packages, targetPkg)) =>
        \A i \in DOMAIN chains :
            /\ Len(chains[i]) >= 1
            /\ IsExplicit(packages, chains[i][1])
            /\ chains[i][Len(chains[i])] = targetPkg

C2_Witness ==
    /\ Returned
    /\ ~IsExplicit(packages, targetPkg)
    /\ \E i \in DOMAIN chains : Len(chains[i]) = 3 /\ IsExplicit(packages, chains[i][1])

\* C3: no chain, recorded or returned, holds a package name twice, cycles in
\* the reverse dependency map included.
C3_ChainsSimple ==
    \A i \in DOMAIN chains : NoRepeat(chains[i])

\* a chain was returned although the target depends on itself
C3_Witness ==
    /\ Returned
    /\ targetPkg \in Range(Lookup(reverseDeps, targetPkg))
    /\ chains # <<>>

\* the index is the cycle M depends on N, N depends on M, neither explicit,
\* the target is one of the two and nothing else depends on either
CycleMN ==
    /\ targetPkg \in DOMAIN packages
    /\ \E n \in DOMAIN packages \ {targetPkg} :
        /\ HasDep(n, targetPkg) /\ HasDep(targetPkg, n)
        /\ ~IsExplicit(packages, n) /\ ~IsExplicit(packages, targetPkg)
        /\ \A p \in DOMAIN packages \ {n, targetPkg} :
                ~HasDep(p, n) /\ ~HasDep(p, targetPkg)

\* C4: every call of findInstallationChains comes to an end (it returns, or
\* the run is aborted by the panic of cleanDependencyName), the recursion is
\* never deeper than the number of packages, and on the cycle M <-> N with
\* neither explicit it returns no chain.
C4_Terminates ==
    /\ (pc = "find") ~> (pc \in {"done", "panic"})
    /\ [](Len(stack) <= Cardinality(DOMAIN packages))
    /\ []((Returned /\ CycleMN) => chains = <<>>)

C4_Witness == Returned /\ CycleMN /\ chains = <<>>

\* the sequences of distinct packages [R, ..., T] with R explicit, T the target
\* and each package listing the next one as a dependency
RootedPaths ==
    {s \in SeqsUpTo(DOMAIN packages, Cardinality(DOMAIN packages)) :
        /\ Len(s) >= 1
        /\ NoRepeat(s)
        /\ IsExplicit(packages, s[1])
        /\ s[Len(s)] = targetPkg
        /\ \A i \in 1..(Len(s) - 1) : HasDep(s[i], s[i + 1])}

C6_ConsecutiveDirect ==
    Returned =>
        \A i \in DOMAIN chains : \A k \in 1..(Len(chains[i]) - 1) :
            /\ chains[i][k] \in DOMAIN packages
            /\ HasDep(chains[i][k], chains[i][k + 1])

C6_Witness ==
    /\ Returned
    /\ \E i \in DOMAIN chains : Len(chains[i]) = 3 /\ chains[i][2] # chains[i][1]

\* the names a specifier of the index normalizes to
DepNames ==
    UNION {{cleanDependencyName(packages[p].Dependencies[j]) :
                j \in DOMAIN packages[p].Dependencies} : p \in DOMAIN packages}

\* C7: once the reverse dependency map is built, P is listed under D exactly
\* when a specifier of P name-normalizes to D.
C7_ReverseSymmetric ==
    (pc \in {"dfs", "reverse", "done"}) =>
        /\ DOMAIN reverseDeps = DepNames
        /\ \A d \in DepNames \cup Targets \cup Names :
              /\ Range(Lookup(reverseDeps, d)) \subseteq DOMAIN packages
              /\ \A p \in DOMAIN packages :
                    p \in Range(Lookup(reverseDeps, d)) <=> HasDep(p, d)

\* the map was built from an index where two packages name the target, one
\* of them with a version constraint
C7_Witness ==
    /\ pc \in {"dfs", "reverse", "done"}
    /\ Cardinality(Range(Lookup(reverseDeps, targetPkg))) = 2
    /\ \E p \in DOMAIN packages : \E j \in DOMAIN packages[p].Dependencies :
            Len(packages[p].Dependencies[j]) > 1

\* C8: two calls of findInstallationChains on the same index and target return
\* the same chains in the same order.
C8_Deterministic ==
    (Returned /\ run = 2) => chains = firstChains

\* C9: no two returned chains begin with the same package.
C9_DistinctRoots ==
    Returned =>
        \A i, j \in DOMAIN chains : chains[i][1] = chains[j][1] => i = j

\* C10: once loadAllPackages has returned, every entry of the index is stored
\* under its own name and that name is not empty.
C10_NamesNonEmpty ==
    (pc = "loaded") =>
        \A k \in DOMAIN packages : packages[k].Name = k /\ k # <<>>

\* C11 as claimed: no step of main after loadAllPackages changes the index.
C11_IndexImmutable == [][packages' = packages]_vars

\* C11 as amended: after loadAllPackages the key set of the index and every
\* record of it stay as they are, except that getPackageInfo stores in the
\* RequiredBy field of the queried record the names of the packages that
\* depend on it; findRequiredBy, buildReverseDependencyMap,
\* findInstallationChains and displayPackageInfo change nothing.
C11_OnlyRequiredByWritten ==
    [][/\ DOMAIN packages' = DOMAIN packages
       /\ \A k \in DOMAIN packages :
            \/ packages'[k] = packages[k]
            \/ /\ pc = "main"
               /\ k = targetPkg
               /\ packages'[k] = [packages[k] EXCEPT !.RequiredBy = packages'[k].RequiredBy]
               /\ Range(packages'[k].RequiredBy) =
                     {p \in DOMAIN packages : HasDep(p, targetPkg)}]_vars

\* the whole of main has run and getPackageInfo has written a required-by list
C11_Witness ==
    /\ pc = "displayed"
    /\ packages[targetPkg].RequiredBy # <<>>
    /\ report.requiredBy = packages[targetPkg].RequiredBy

\* C12: the report of a dependency-installed package with n chains shows at
\* most 6 of them, prints the note exactly when chains were left out, and the
\* chains shown plus the number in the note make n.
C12_CapAndNote ==
    (pc = "displayed" /\ ~report.explicit) =>
        /\ Len(report.shown) <= 6
        /\ report.hasNote => Len(report.shown) + report.more = Len(chains)
        /\ report.hasNote <=> Len(report.shown) < Len(chains)

\* the runes of s before the first of "<", ">", "=" or white space
RECURSIVE PrefixBeforeSeparator(_)
PrefixBeforeSeparator(s) ==
    IF s = <<>> \/ Head(s) \in {60, 62, 61} \cup WhiteSpace
    THEN <<>>
    ELSE <<Head(s)>> \o PrefixBeforeSeparator(Tail(s))

\* C13: on every line that can be a dependency specifier cleanDependencyName
\* does not fail, and it returns the runes before the first "<", ">", "=" or
\* white space.
C13_CleanIsPrefix ==
    /\ pc # "panic"
    /\ pc = "cleaned" => depResult = PrefixBeforeSeparator(depArg)

====
